---- MODULE Spec2Model ----
(***************************************************************************)
(* Random assignment mechanisms (src/mechanisms.py) and the verification   *)
(* of their properties (src/verify_properties.py), with the explanation    *)
(* layer of src/app.py.                                                    *)
(*                                                                         *)
(* Floats are modelled as exact rationals <<numerator, denominator>> in    *)
(* lowest terms with a positive denominator; the 1e-6 thresholds of the    *)
(* code are kept as the rational 1/EpsDen.                                 *)
(***************************************************************************)
EXTENDS Integers, Sequences, FiniteSets, TLC

VARIABLES
    agents,          \* list of agent names
    objects,         \* list of object names
    preferences,     \* dict agent -> ranking (list of objects); mutated by check_strategy_proofness
    mechanism,       \* the mechanism name the call is about
    pc,              \* where the program is
    assignment,      \* dict agent -> dict object -> fraction (the matrix being built / returned)
    remaining,       \* probabilistic_serial: dict object -> remaining supply
    time,            \* probabilistic_serial: the clock
    delta,           \* probabilistic_serial: delta of the last executed iteration
    trial,           \* random_priority: number of iterations done
    status,          \* popular_assignment: the LP solver's status; "" before the solve
    given,           \* the preferences as the caller passed them (history)
    properties,      \* evaluate_mechanism_properties: the verdicts computed so far
    results,         \* the dicts evaluate_mechanism_properties / the four checks returned
    pareto_perms,    \* check_ex_post_efficiency: the permutations its filter kept
    entry_preferences,    \* check_strategy_proofness: preferences at its entry (history)
    agent_idx,       \* check_strategy_proofness: position of `agent` in agents
    swap_i,          \* check_strategy_proofness: the loop variable i
    original_preferences, \* check_strategy_proofness: original_preferences
    explained_name,  \* explain_property: the name it was called with
    calls,           \* check_strategy_proofness: the mechanism invocations of the current call (history)
    explanation      \* the text explain_property returned / the paragraph displayed

vars == <<agents, objects, preferences, mechanism, pc, assignment, remaining,
          time, delta, trial, status, given, properties, results, pareto_perms,
          entry_preferences, agent_idx, swap_i, original_preferences,
          explained_name, explanation, calls>>

----------------------------------------------------------------------------
(* Exact rationals.                                                        *)

RECURSIVE GCD(_, _)
GCD(a, b) == IF b = 0 THEN a ELSE GCD(b, a % b)

Abs(x) == IF x < 0 THEN -x ELSE x

\* The rational n/d (d # 0) in lowest terms with a positive denominator.
Rat(n, d) ==
    LET g == GCD(Abs(n), Abs(d))
        s == IF d < 0 THEN -1 ELSE 1
    IN  <<s * (n \div g), s * (d \div g)>>

Zero == <<0, 1>>
One == <<1, 1>>

RAdd(a, b) == Rat(a[1] * b[2] + b[1] * a[2], a[2] * b[2])
RSub(a, b) == Rat(a[1] * b[2] - b[1] * a[2], a[2] * b[2])
RDivInt(a, k) == Rat(a[1], a[2] * k)
RMulInt(k, a) == Rat(k * a[1], a[2])
RLt(a, b) == a[1] * b[2] < b[1] * a[2]
RLe(a, b) == a[1] * b[2] <= b[1] * a[2]
RMin(a, b) == IF RLt(b, a) THEN b ELSE a

\* The denominator of the code's 1e-6 thresholds.
EpsDen == 1000000
epsilon == <<1, EpsDen>>

----------------------------------------------------------------------------
(* Lists and dicts.                                                        *)

Range(s) == {s[k] : k \in DOMAIN s}

\* list.index(x): the first position (0-based) of x; the caller checks x is in s.
index(s, x) == (CHOOSE k \in DOMAIN s : s[k] = x /\ \A j \in 1..(k - 1) : s[j] # x) - 1

\* All orderings of the list s (itertools.permutations / np.random.permutation).
permutations(s) ==
    {p \in [1..Len(s) -> Range(s)] : \A x \in Range(s) : \E k \in 1..Len(s) : p[k] = x}

\* del d[k]
Del(d, k) == [x \in (DOMAIN d) \ {k} |-> d[x]]

RECURSIVE RSum(_, _)
\* Sum of f[x] over x in the set S.
RSum(f, S) ==
    IF S = {} THEN Zero
    ELSE LET x == CHOOSE y \in S : TRUE IN RAdd(f[x], RSum(f, S \ {x}))

----------------------------------------------------------------------------
(* probabilistic_serial (src/mechanisms.py 6-54).                           *)

\* line 30: obj in remaining and remaining[obj] > 1e-6
Edible(rem, obj) == obj \in DOMAIN rem /\ RLt(epsilon, rem[obj])

\* lines 27-32: the dict agent -> the first object of its ranking that is
\* still edible; an agent without such an object has no entry.
eat_rates(ag, prefs, rem) ==
    LET has(a) == \E k \in DOMAIN prefs[a] : Edible(rem, prefs[a][k])
        first(a) == CHOOSE k \in DOMAIN prefs[a] :
                        /\ Edible(rem, prefs[a][k])
                        /\ \A j \in 1..(k - 1) : ~Edible(rem, prefs[a][j])
    IN  [a \in {b \in Range(ag) : has(b)} |-> prefs[a][first(a)]]

RECURSIVE min_obj_delta_whole(_, _, _, _)
\* min_obj_delta without the division by the number of agents eating the object.
min_obj_delta_whole(d, S, er, rem) ==
    IF S = {} THEN d
    ELSE LET obj == CHOOSE o \in S : TRUE
         IN  min_obj_delta_whole(RMin(d, rem[obj]), S \ {obj}, er, rem)

RECURSIVE min_obj_delta(_, _, _, _)
\* lines 39-43: delta = min(delta, remaining[obj] / rate) over the objects in S
min_obj_delta(d, S, er, rem) ==
    IF S = {} THEN d
    ELSE LET obj == CHOOSE o \in S : TRUE
             agents_eating == {a \in DOMAIN er : er[a] = obj}
             rate == Cardinality(agents_eating)
             obj_delta == RDivInt(rem[obj], rate)
         IN  min_obj_delta(RMin(d, obj_delta), S \ {obj}, er, rem)

\* compute_delta with the operands of the time left swapped (time - 1).
compute_delta_swapped(er, rem, t) ==
    LET consumed_objects == {er[a] : a \in DOMAIN er}
    IN  min_obj_delta(RSub(t, One), consumed_objects, er, rem)

\* lines 37-43
compute_delta(er, rem, t) ==
    LET consumed_objects == {er[a] : a \in DOMAIN er}
    IN  min_obj_delta(RSub(One, t), consumed_objects, er, rem)

RECURSIVE feed_eager_delete(_, _, _, _, _)
\* feed with the object deleted as soon as anything has been eaten of it (the
\* threshold of the deletion taken as the full supply).
feed_eager_delete(k, ag, er, d, st) ==
    IF k > Len(ag) THEN st
    ELSE IF ag[k] \notin DOMAIN er \/ er[ag[k]] \notin DOMAIN st.remaining
         THEN feed_eager_delete(k + 1, ag, er, d, st)
         ELSE LET a == ag[k]
                  obj == er[a]
                  asg == [st.assignment EXCEPT ![a][obj] = RAdd(@, d)]
                  r1 == [st.remaining EXCEPT ![obj] = RSub(@, d)]
                  r2 == IF RLt(r1[obj], One) THEN Del(r1, obj) ELSE r1
              IN  feed_eager_delete(k + 1, ag, er, d, [assignment |-> asg, remaining |-> r2])

RECURSIVE feed(_, _, _, _, _)
\* lines 45-50: the agents of eat_rates, in the order of the agents list, each
\* credited d of its object unless the object was deleted earlier in this loop.
feed(k, ag, er, d, st) ==
    IF k > Len(ag) THEN st
    ELSE IF ag[k] \notin DOMAIN er \/ er[ag[k]] \notin DOMAIN st.remaining
         THEN feed(k + 1, ag, er, d, st)
         ELSE LET a == ag[k]
                  obj == er[a]
                  asg == [st.assignment EXCEPT ![a][obj] = RAdd(@, d)]
                  r1 == [st.remaining EXCEPT ![obj] = RSub(@, d)]
                  r2 == IF RLt(r1[obj], epsilon) THEN Del(r1, obj) ELSE r1
              IN  feed(k + 1, ag, er, d, [assignment |-> asg, remaining |-> r2])

\* lines 22-24
ps_init(ag, ob) ==
    [assignment |-> [a \in Range(ag) |-> [o \in Range(ob) |-> Zero]],
     remaining |-> [o \in Range(ob) |-> One],
     time |-> Zero,
     delta |-> Zero]

\* lines 26 and 34: the loop runs another iteration
ps_continue(ag, prefs, st) ==
    /\ RLt(st.time, One)
    /\ DOMAIN st.remaining # {}
    /\ DOMAIN eat_rates(ag, prefs, st.remaining) # {}

\* lines 27-52: one iteration of the loop
ps_body(ag, prefs, st) ==
    LET er == eat_rates(ag, prefs, st.remaining)
        d == compute_delta(er, st.remaining, st.time)
        fed == feed(1, ag, er, d, [assignment |-> st.assignment, remaining |-> st.remaining])
    IN  [assignment |-> fed.assignment,
         remaining |-> fed.remaining,
         time |-> RAdd(st.time, d),
         delta |-> d]

RECURSIVE ps_loop(_, _, _)
ps_loop(ag, prefs, st) ==
    IF ps_continue(ag, prefs, st) THEN ps_loop(ag, prefs, ps_body(ag, prefs, st))
    ELSE st.assignment

\* The whole call.
probabilistic_serial(ag, ob, prefs) == ps_loop(ag, prefs, ps_init(ag, ob))

----------------------------------------------------------------------------
(* random_priority (src/mechanisms.py 57-92).                               *)

\* The number of trials of one random_priority call (the code's default is
\* 1000; every caller uses the default).
Iterations == 2

RECURSIVE serial_dictatorship(_, _, _, _, _)
\* lines 79-87: the agents in `order` each take the first object of their
\* ranking still in `rem`; the result is temp_assign.
serial_dictatorship(k, order, prefs, rem, temp_assign) ==
    IF k > Len(order) THEN temp_assign
    ELSE LET agent == order[k]
             pref == prefs[agent]
             has == \E j \in DOMAIN pref : pref[j] \in rem
             first == CHOOSE j \in DOMAIN pref :
                          pref[j] \in rem /\ \A i \in 1..(j - 1) : pref[i] \notin rem
         IN  IF has
             THEN serial_dictatorship(k + 1, order, prefs, rem \ {pref[first]},
                      [a \in (DOMAIN temp_assign) \cup {agent} |->
                          IF a = agent THEN pref[first] ELSE temp_assign[a]])
             ELSE serial_dictatorship(k + 1, order, prefs, rem, temp_assign)

\* rp_trial with a whole unit credited per trial (the division by the number of
\* iterations forgotten).
rp_trial_whole(asg, order, ob, prefs) ==
    LET temp_assign == serial_dictatorship(1, order, prefs, Range(ob), << >>)
    IN  [a \in DOMAIN asg |-> [o \in DOMAIN asg[a] |->
            IF a \in DOMAIN temp_assign /\ temp_assign[a] = o
            THEN RAdd(asg[a][o], One)
            ELSE asg[a][o]]]

\* lines 78-90: one trial with the drawn order
rp_trial(asg, order, ob, prefs) ==
    LET temp_assign == serial_dictatorship(1, order, prefs, Range(ob), << >>)
    IN  [a \in DOMAIN asg |-> [o \in DOMAIN asg[a] |->
            IF a \in DOMAIN temp_assign /\ temp_assign[a] = o
            THEN RAdd(asg[a][o], Rat(1, Iterations))
            ELSE asg[a][o]]]

\* line 75
rp_init(ag, ob) == [a \in Range(ag) |-> [o \in Range(ob) |-> Zero]]

RECURSIVE rp_outcomes(_, _, _, _, _)
\* Every matrix k more trials can produce from one of the matrices in S.
rp_outcomes(k, S, ag, ob, prefs) ==
    IF k = 0 THEN S
    ELSE rp_outcomes(k - 1,
             {rp_trial(asg, order, ob, prefs) : asg \in S, order \in permutations(ag)},
             ag, ob, prefs)

\* The whole call: the set of matrices it can return.
random_priority(ag, ob, prefs) == rp_outcomes(Iterations, {rp_init(ag, ob)}, ag, ob, prefs)

----------------------------------------------------------------------------
(* popular_assignment (src/mechanisms.py 95-137).                           *)
(* The LP solver is modelled by what it is specified to do: it reports      *)
(* "Optimal" with some optimal point when the LP is feasible, "Infeasible"  *)
(* otherwise.  The points are taken from the grid of the matrices whose     *)
(* entries all have one denominator d in 1..GridDen; which optimal point    *)
(* the solver returns is its choice.                                        *)

GridDen == 3

\* An LpVariable's varValue when the solver gave it no number.
None == <<0, 0>>

RECURSIVE ISum(_, _)
\* Sum of the integers f[1] .. f[k].
ISum(f, k) == IF k = 0 THEN 0 ELSE f[k] + ISum(f, k - 1)

RECURSIVE Tabulate(_, _)
\* The list <<F(1), ..., F(k)>>.
Tabulate(F(_), k) == IF k = 0 THEN << >> ELSE Append(Tabulate(F, k - 1), F(k))

\* lines 114, 119-122: the points p with 0 <= p[a][o] <= 1, every agent's row
\* summing to 1 and every object's column summing to 1, on the grid of
\* denominator d: p[ag[i]][ob[j]] = m[i][j] / d.
lp_feasible_d(ag, ob, d) ==
    LET rows == {r \in [1..Len(ob) -> 0..d] : ISum(r, Len(ob)) = d}
        \* the last agent's row is what the columns leave
        left(f) == Tabulate(LAMBDA j : d - ISum([i \in 1..(Len(ag) - 1) |-> f[i][j]], Len(ag) - 1),
                            Len(ob))
    IN  {Append(f, left(f)) : f \in {g \in [1..(Len(ag) - 1) -> rows] : left(g) \in rows}}

lp_feasible(ag, ob) ==
    UNION {{[m |-> m, d |-> d] : m \in lp_feasible_d(ag, ob, d)} : d \in 1..GridDen}

\* ranks[i][j]: the position of object ob[j] in the ranking of agent ag[i]
\* (preferences[agent].index(o), lines 130 and 132)
lp_ranks(ag, ob, prefs) ==
    Tabulate(LAMBDA i : Tabulate(LAMBDA j : index(prefs[ag[i]], ob[j]), Len(ob)), Len(ag))

\* lines 128-133: what agent ag[i] adds to the margin when the deterministic
\* assignment gives it object ob[jm], for the point m/d, times d; gains[i][jm]
lp_gains(m, ranks, ag, ob) ==
    Tabulate(LAMBDA i : Tabulate(LAMBDA jm :
        ISum([j \in 1..Len(ob) |->
                 IF ranks[i][j] < ranks[i][jm] THEN m[i][j]
                 ELSE IF ranks[i][j] > ranks[i][jm] THEN -m[i][j]
                      ELSE 0], Len(ob)), Len(ob)), Len(ag))

\* lines 126-133: the margin against the deterministic assignment M, agent
\* ag[i] getting object ob[M[i]]
margin(gains, M, ag) == ISum([i \in 1..Len(ag) |-> gains[i][M[i]]], Len(ag))

\* lines 115-117, 124-134: the largest z with margin(p, M) >= z for every M of
\* all_perms and z <= n: the objective value of the point pt
lp_objective(pt, all_perms, ranks, ag, ob) ==
    LET gains == lp_gains(pt.m, ranks, ag, ob)
        margins == {margin(gains, M, ag) : M \in all_perms}
        least == CHOOSE x \in margins : \A y \in margins : x <= y
    IN  RMin(<<Len(ag), 1>>, Rat(least, pt.d))

\* lines 125-133: the exception building the constraints raises, "" if none:
\* M[i] for an agent beyond the objects, list.index for an object a ranking lacks
lp_build_error(ag, ob, prefs) ==
    LET bad(k) == k > Len(ob) \/ \E o \in Range(ob) : o \notin Range(prefs[ag[k]])
    IN  IF \E k \in 1..Len(ag) : bad(k)
        THEN LET k == CHOOSE j \in 1..Len(ag) : bad(j) /\ \A i \in 1..(j - 1) : ~bad(i)
             IN  IF k > Len(ob) THEN "IndexError" ELSE "ValueError"
        ELSE ""

\* The values the solver writes into the variables for the point pt.
varValue(pt, ag, ob) ==
    [a \in Range(ag) |-> [o \in Range(ob) |-> Rat(pt.m[index(ag, a) + 1][index(ob, o) + 1], pt.d)]]

\* line 136: what the solver leaves in the variables, [status, value]: with a
\* feasible LP, a point whose objective value is the largest (line 117)
lp_solve(ag, ob, prefs) ==
    LET feasible == lp_feasible(ag, ob)
        all_perms == permutations([j \in 1..Len(ob) |-> j])
        ranks == lp_ranks(ag, ob, prefs)
        scored == {<<pt, lp_objective(pt, all_perms, ranks, ag, ob)>> : pt \in feasible}
        best == CHOOSE s \in scored : \A t \in scored : RLe(t[2], s[2])
    IN  IF feasible = {}
        THEN {[status |-> "Infeasible", value |-> v] :
                 v \in [Range(ag) -> [Range(ob) -> {None, Zero, One}]]}
        ELSE {[status |-> "Optimal", value |-> varValue(s[1], ag, ob)] :
                 s \in {t \in scored : t[2] = best[2]}}

\* line 137: the matrix is returned whatever the status
popular_return(solved) == [raised |-> "", value |-> solved.value]

\* The whole call: the set of its outcomes, [raised, value].
popular_assignment(ag, ob, prefs) ==
    IF lp_build_error(ag, ob, prefs) # ""
    THEN {[raised |-> lp_build_error(ag, ob, prefs), value |-> << >>]}
    ELSE {popular_return(s) : s \in lp_solve(ag, ob, prefs)}

----------------------------------------------------------------------------
(* The property checks (src/verify_properties.py).                          *)

\* The property names of the returned dict, verify_properties.py 239-244
PropertyNames == {"Ex Post Efficiency", "Ordinal Efficiency", "No Envy", "Strategy-Proofness"}

\* The set of the outcomes [raised, value] of MECHANISMS[name](ag, ob, prefs).
mechanism_call(name, ag, ob, prefs) ==
    CASE name = "Probabilistic Serial" ->
             {[raised |-> "", value |-> probabilistic_serial(ag, ob, prefs)]}
      [] name = "Random Priority" ->
             {[raised |-> "", value |-> v] : v \in random_priority(ag, ob, prefs)}
      [] name = "Popular" -> popular_assignment(ag, ob, prefs)

\* lines 41-50: no two agents would both rather have the other's object
is_pareto_optimal(perm, ag, prefs) ==
    \A i, j \in 1..Len(ag) :
        i = j \/ ~(/\ index(prefs[ag[i]], perm[j]) < index(prefs[ag[i]], perm[i])
                   /\ index(prefs[ag[j]], perm[i]) < index(prefs[ag[j]], perm[j]))

\* lines 39, 52
pareto_perms_of(ag, ob, prefs) == {perm \in permutations(ob) : is_pareto_optimal(perm, ag, prefs)}

LCM(a, b) == (a * b) \div GCD(a, b)

RECURSIVE LCMOver(_)
LCMOver(S) == IF S = {} THEN 1 ELSE LET x == CHOOSE y \in S : TRUE IN LCM(x, LCMOver(S \ {x}))

RECURSIVE decomposable(_, _, _)
\* Whether the integer matrix target[i][j] is a sum of the permutation
\* matrices of `perms` with natural weights.
decomposable(target, perms, n) ==
    IF perms = {} THEN \A i \in 1..n : \A j \in DOMAIN target[i] : target[i][j] = 0
    ELSE LET perm == CHOOSE q \in perms : TRUE
             cells == {target[i][perm[i]] : i \in 1..n}
             most == CHOOSE x \in cells : \A y \in cells : x <= y
         IN  \E w \in 0..most :
                 decomposable([i \in 1..n |-> [j \in DOMAIN target[i] |->
                                  IF j = perm[i] THEN target[i][j] - w ELSE target[i][j]]],
                              perms \ {perm}, n)

\* lines 54-69: linprog's success, the feasibility of
\*   sum over perm of x[perm] * [perm[i] = obj] = assignment[agent][obj], 0 <= x <= 1.
\* Decided exactly for up to three agents: with D the common denominator of
\* the matrix, a solution exists iff one with weights k/D does (any five of
\* the six 3x3 permutation matrices are linearly independent with the
\* weights read off single cells, and all six decompose by Birkhoff-von
\* Neumann).
linprog_success(asg, perms, ag, ob) ==
    LET D == LCMOver({asg[a][o][2] : a \in Range(ag), o \in Range(ob)})
        target == [i \in 1..Len(ag) |-> [o \in Range(ob) |->
                      (asg[ag[i]][o][1] * D) \div asg[ag[i]][o][2]]]
    IN  decomposable(target, perms, Len(ag))

\* lines 38-69
check_ex_post_efficiency(asg, prefs, ag, ob) ==
    linprog_success(asg, pareto_perms_of(ag, ob, prefs), ag, ob)

\* The edges with the test of line 100 left out: better -> worse for every
\* pair of every ranking, held or not.
dominance_edges_unheld(asg, prefs, ag) ==
    UNION {{<<prefs[a][p[1]], prefs[a][p[2]]>> :
               p \in {q \in (DOMAIN prefs[a]) \X (DOMAIN prefs[a]) : q[1] < q[2]}} :
           a \in Range(ag)}

\* lines 93-101: the edges better -> worse of the dominance graph
dominance_edges(asg, prefs, ag) ==
    UNION {{<<prefs[a][p[1]], prefs[a][p[2]]>> :
               p \in {q \in (DOMAIN prefs[a]) \X (DOMAIN prefs[a]) :
                         q[1] < q[2] /\ RLt(epsilon, asg[a][prefs[a][q[2]]])}} :
           a \in Range(ag)}

RECURSIVE reachable(_, _, _)
\* The nodes a path of at least one edge leads to from a node of `from`.
reachable(from, seen, edges) ==
    LET next == {e[2] : e \in {f \in edges : f[1] \in from}} \ seen
    IN  IF next = {} THEN seen ELSE reachable(next, seen \cup next, edges)

\* nx.find_cycle, lines 103-107
has_cycle(edges, nodes) == \E o \in nodes : o \in reachable({o}, {}, edges)

\* lines 93-107
check_ordinal_efficiency(asg, prefs, ag, ob) ==
    ~has_cycle(dominance_edges(asg, prefs, ag), Range(ob))

\* utility with the position in the ranking as the weight (the subtraction
\* from the number of objects forgotten).
utility_by_position(pref, row, ob) ==
    RSum([o \in DOMAIN row |-> RMulInt(index(pref, o), row[o])], DOMAIN row)

\* lines 133-136, 186-193: the utility of the row `row` under the ranking pref
utility(pref, row, ob) ==
    RSum([o \in DOMAIN row |-> RMulInt(Len(ob) - index(pref, o), row[o])], DOMAIN row)

\* lines 130-143
check_no_envy(asg, prefs, ag, ob) ==
    ~\E agent1, agent2 \in Range(ag) :
        /\ agent1 # agent2
        /\ RLt(utility(prefs[agent1], asg[agent1], ob), utility(prefs[agent1], asg[agent2], ob))

\* misreport with position i overwritten by position i + 1 and position i + 1
\* left as it was (the swap done as one plain assignment).
misreport_overwrite(original_prefs, k) ==
    [j \in DOMAIN original_prefs |->
        IF j = k + 1 THEN original_prefs[k + 2] ELSE original_prefs[j]]

\* lines 176-179: the ranking with positions i and i + 1 (0-based) swapped
misreport(original_prefs, k) ==
    [j \in DOMAIN original_prefs |->
        IF j = k + 1 THEN original_prefs[k + 2]
        ELSE IF j = k + 2 THEN original_prefs[k + 1]
             ELSE original_prefs[j]]

\* lines 185-195: the misreport pays
improves(original_prefs, asg, new_assignment, agent, ob) ==
    RLt(utility(original_prefs, asg[agent], ob), utility(original_prefs, new_assignment[agent], ob))

----------------------------------------------------------------------------
(* The explanation layer (src/app.py 14-107).  A text is modelled as the    *)
(* list of its parts.                                                       *)

Part(text) == [text |-> text, a1 |-> "", a2 |-> "", u1 |-> Zero, u2 |-> Zero]

\* app.py 89-100: the first pair (a1, a2), in the order of the two loops,
\* with a1 preferring a2's allocation; its line of the text, if there is one
envy_lines(asg, prefs, ag, ob) ==
    LET u1(p) == utility(prefs[ag[p[1]]], asg[ag[p[1]]], ob)
        u2(p) == utility(prefs[ag[p[1]]], asg[ag[p[2]]], ob)
        envious == {p \in (1..Len(ag)) \X (1..Len(ag)) : p[1] # p[2] /\ RLt(u1(p), u2(p))}
        first == CHOOSE p \in envious : \A q \in envious :
                     p[1] < q[1] \/ (p[1] = q[1] /\ p[2] <= q[2])
    IN  IF envious = {} THEN << >>
        ELSE <<[text |-> "prefers", a1 |-> ag[first[1]], a2 |-> ag[first[2]],
                u1 |-> u1(first), u2 |-> u2(first)]>>

\* app.py 75-107: the text returned for property_name
explain_property(property_name, result, asg, prefs, ag, ob) ==
    IF property_name = "Ex Post Efficiency"
    THEN <<Part("Ex Post Efficiency means")>> \o
         (IF ~result THEN <<Part("cannot be represented")>> ELSE << >>)
    ELSE IF property_name = "Ordinal Efficiency"
    THEN <<Part("Ordinal Efficiency ensures")>> \o
         (IF ~result THEN <<Part("contains a dominance cycle")>> ELSE << >>)
    ELSE IF property_name = "No Envy"
    THEN <<Part("No Envy means")>> \o
         (IF ~result
          THEN <<Part("At least one agent prefers")>> \o envy_lines(asg, prefs, ag, ob) \o
               <<Part("This shows envy exists")>>
          ELSE << >>)
    ELSE IF property_name = "Strategy-Proofness"
    THEN <<Part("Strategy-Proofness ensures")>> \o
         (IF ~result THEN <<Part("could increase their expected utility")>> ELSE << >>)
    ELSE << >>

\* app.py 32-58: the paragraph displayed for the mechanism name
dynamic_paragraph_interpretation(asg, ag, ob, name) ==
    LET known == name \in {"Probabilistic Serial", "Random Priority", "Popular"}
        per_agent == [k \in 1..Len(ag) |->
                         [text |-> "received", a1 |-> ag[k], a2 |-> "", u1 |-> Zero, u2 |-> Zero]]
    IN  (IF known THEN <<Part(name)>> ELSE << >>) \o per_agent \o
        (IF known THEN <<Part("This means")>> ELSE << >>)

----------------------------------------------------------------------------
(* Inputs.                                                                  *)

AgentNames == <<"A", "B", "C">>
ObjectNames == <<"X", "Y", "Z">>

\* src/verify_properties.py 11-15
MECHANISMS == {"Probabilistic Serial", "Random Priority", "Popular"}

\* Every ranking is a permutation of the objects.
ValidRankings(ag, ob, prefs) ==
    \A a \in Range(ag) : prefs[a] \in permutations(ob)

\* The valid inputs (spec section 6): n agents, n objects, every ranking a
\* permutation of the objects.
ValidInput(ag, ob, prefs) == Len(ag) = Len(ob) /\ ValidRankings(ag, ob, prefs)

\* Every valid input with n agents.
ValidInputs(n) ==
    LET ag == SubSeq(AgentNames, 1, n)
        ob == SubSeq(ObjectNames, 1, n)
    IN  {[agents |-> ag, objects |-> ob, preferences |-> prefs] :
            prefs \in [Range(ag) -> permutations(ob)]}

\* The lists over the objects ob of length 1 .. Len(ob) + 1.
Lists(ob) == UNION {[1..k -> Range(ob)] : k \in 1..(Len(ob) + 1)}

\* Two agents and two objects, the rankings any lists over the objects: a
\* ranking may miss an object, repeat one, or have the wrong length.
MalformedInputs ==
    LET ag == SubSeq(AgentNames, 1, 2)
        ob == SubSeq(ObjectNames, 1, 2)
    IN  {[agents |-> ag, objects |-> ob, preferences |-> prefs] :
            prefs \in {q \in [Range(ag) -> Lists(ob)] : ~ValidRankings(ag, ob, q)}}

\* Two agents and three objects, the rankings permutations of the objects.
UnequalInputs ==
    LET ag == SubSeq(AgentNames, 1, 2)
        ob == SubSeq(ObjectNames, 1, 3)
    IN  {[agents |-> ag, objects |-> ob, preferences |-> prefs] :
            prefs \in [Range(ag) -> permutations(ob)]}

MechanismInputs == ValidInputs(2) \cup ValidInputs(3) \cup MalformedInputs \cup UnequalInputs

----------------------------------------------------------------------------
(* Spec: one call of a mechanism, the loops of probabilistic_serial and     *)
(* random_priority step by step.                                            *)

NoDict == << >>

\* Nothing has been called yet.
Idle ==
    /\ pc = "start"
    /\ given = preferences
    /\ properties = NoDict
    /\ results = << >>
    /\ pareto_perms = {}
    /\ entry_preferences = NoDict
    /\ agent_idx = 0
    /\ swap_i = 0
    /\ original_preferences = << >>
    /\ explained_name = ""
    /\ explanation = << >>
    /\ calls = << >>

Init ==
    /\ \E input \in MechanismInputs :
          /\ agents = input.agents
          /\ objects = input.objects
          /\ preferences = input.preferences
    /\ mechanism \in MECHANISMS
    /\ Idle
    /\ assignment = NoDict
    /\ remaining = NoDict
    /\ time = Zero
    /\ delta = Zero
    /\ trial = 0
    /\ status = ""

inputVars == <<agents, objects, preferences, mechanism>>

verifyVars == <<given, properties, results, pareto_perms, entry_preferences,
                agent_idx, swap_i, original_preferences, explained_name, explanation,
                calls>>

\* The state of the probabilistic_serial loop.
ps_state == [assignment |-> assignment, remaining |-> remaining, time |-> time, delta |-> delta]

\* mechanisms.py 22-24
ps_call ==
    /\ pc = "start"
    /\ mechanism = "Probabilistic Serial"
    /\ assignment' = ps_init(agents, objects).assignment
    /\ remaining' = ps_init(agents, objects).remaining
    /\ time' = ps_init(agents, objects).time
    /\ delta' = ps_init(agents, objects).delta
    /\ pc' = "ps_loop"
    /\ UNCHANGED <<inputVars, verifyVars, trial, status>>

\* mechanisms.py 26-52: one iteration
ps_iterate ==
    /\ pc = "ps_loop"
    /\ ps_continue(agents, preferences, ps_state)
    /\ assignment' = ps_body(agents, preferences, ps_state).assignment
    /\ remaining' = ps_body(agents, preferences, ps_state).remaining
    /\ time' = ps_body(agents, preferences, ps_state).time
    /\ delta' = ps_body(agents, preferences, ps_state).delta
    /\ UNCHANGED <<inputVars, verifyVars, pc, trial, status>>

\* mechanisms.py 26, 34-35, 54: the loop ends and the matrix is returned
ps_return ==
    /\ pc = "ps_loop"
    /\ ~ps_continue(agents, preferences, ps_state)
    /\ pc' = "returned"
    /\ UNCHANGED <<inputVars, verifyVars, assignment, remaining, time, delta, trial, status>>

\* mechanisms.py 75
rp_call ==
    /\ pc = "start"
    /\ mechanism = "Random Priority"
    /\ assignment' = rp_init(agents, objects)
    /\ trial' = 0
    /\ pc' = "rp_loop"
    /\ UNCHANGED <<inputVars, verifyVars, remaining, time, delta, status>>

\* mechanisms.py 77-90: one trial, the order drawn at random
rp_iterate ==
    /\ pc = "rp_loop"
    /\ trial < Iterations
    /\ \E order \in permutations(agents) :
          assignment' = rp_trial(assignment, order, objects, preferences)
    /\ trial' = trial + 1
    /\ UNCHANGED <<inputVars, verifyVars, pc, remaining, time, delta, status>>

\* mechanisms.py 92
rp_return ==
    /\ pc = "rp_loop"
    /\ trial = Iterations
    /\ pc' = "returned"
    /\ UNCHANGED <<inputVars, verifyVars, assignment, remaining, time, delta, trial, status>>

\* mechanisms.py 111-134: the LP is built, or building it raises
popular_build ==
    /\ pc = "start"
    /\ mechanism = "Popular"
    /\ pc' = IF lp_build_error(agents, objects, preferences) # "" THEN "raised" ELSE "lp_built"
    /\ UNCHANGED <<inputVars, verifyVars, assignment, remaining, time, delta, trial, status>>

\* mechanisms.py 136
popular_solve ==
    /\ pc = "lp_built"
    /\ \E solved \in lp_solve(agents, objects, preferences) :
          /\ status' = solved.status
          /\ assignment' = solved.value
    /\ pc' = "lp_solved"
    /\ UNCHANGED <<inputVars, verifyVars, remaining, time, delta, trial>>

\* mechanisms.py 137
popular_finish ==
    /\ pc = "lp_solved"
    /\ pc' = "returned"
    /\ UNCHANGED <<inputVars, verifyVars, assignment, remaining, time, delta, trial, status>>

Next ==
    \/ ps_call
    \/ ps_iterate
    \/ ps_return
    \/ rp_call
    \/ rp_iterate
    \/ rp_return
    \/ popular_build
    \/ popular_solve
    \/ popular_finish

Spec == Init /\ [][Next]_vars


----------------------------------------------------------------------------
(* SpecVerify: one call of evaluate_mechanism_properties, the loop of        *)
(* check_strategy_proofness step by step, then the four checks once more on  *)
(* the same assignment and the same preferences mapping; the calls of the    *)
(* explanation layer.                                                        *)

\* A name that is none of the three mechanisms' / none of the four properties'.
UnknownMechanism == "Boston"
UnknownProperty == "Popularity"

\* Every valid input with two agents under every mechanism name, the unknown
\* one included; the valid inputs with three agents under the two mechanisms
\* that need no LP, the first agent's ranking being the objects list (every
\* other profile is one of these with the objects renamed).
VerifyInputs ==
    {[input |-> i, mechanism |-> m] :
        i \in ValidInputs(2), m \in MECHANISMS \cup {UnknownMechanism}}
    \cup {[input |-> i, mechanism |-> m] :
        i \in {j \in ValidInputs(3) : j.preferences[j.agents[1]] = j.objects},
        m \in {"Probabilistic Serial", "Random Priority"}}

InitVerify ==
    /\ \E v \in VerifyInputs :
          /\ agents = v.input.agents
          /\ objects = v.input.objects
          /\ preferences = v.input.preferences
          /\ mechanism = v.mechanism
    /\ Idle
    /\ assignment = NoDict
    /\ remaining = NoDict
    /\ time = Zero
    /\ delta = Zero
    /\ trial = 0
    /\ status = ""

mechVars == <<remaining, time, delta, trial, status>>

spVars == <<entry_preferences, agent_idx, swap_i, original_preferences>>

\* d[k] = v
Put(d, k, v) == [x \in (DOMAIN d) \cup {k} |-> IF x = k THEN v ELSE d[x]]

\* verify_properties.py 223-230: the mechanism is run, or the name is unknown
evaluate_begin ==
    /\ pc = "start"
    /\ IF mechanism \notin MECHANISMS
       THEN pc' = "raised" /\ UNCHANGED assignment
       ELSE \E out \in mechanism_call(mechanism, agents, objects, preferences) :
               IF out.raised # ""
               THEN pc' = "raised" /\ UNCHANGED assignment
               ELSE pc' = "ex_post" /\ assignment' = out.value
    /\ UNCHANGED <<agents, objects, preferences, mechanism, mechVars, verifyVars>>

\* verify_properties.py 233 (38-69)
ex_post_check ==
    /\ pc = "ex_post"
    /\ pareto_perms' = pareto_perms_of(agents, objects, preferences)
    /\ properties' = Put(properties, "Ex Post Efficiency",
                         linprog_success(assignment, pareto_perms', agents, objects))
    /\ pc' = "ordinal"
    /\ UNCHANGED <<inputVars, assignment, mechVars, given, calls, results, spVars,
                   explained_name, explanation>>

\* verify_properties.py 234 (93-107)
ordinal_check ==
    /\ pc = "ordinal"
    /\ properties' = Put(properties, "Ordinal Efficiency",
                         check_ordinal_efficiency(assignment, preferences, agents, objects))
    /\ pc' = "no_envy"
    /\ UNCHANGED <<inputVars, assignment, mechVars, given, calls, results, pareto_perms, spVars,
                   explained_name, explanation>>

\* verify_properties.py 235 (130-143)
no_envy_check ==
    /\ pc = "no_envy"
    /\ properties' = Put(properties, "No Envy",
                         check_no_envy(assignment, preferences, agents, objects))
    /\ pc' = "sp"
    /\ UNCHANGED <<inputVars, assignment, mechVars, given, calls, results, pareto_perms, spVars,
                   explained_name, explanation>>

\* verify_properties.py 236, 168-173: check_strategy_proofness is entered with
\* a known mechanism name and its loop starts with the first agent
sp_begin ==
    /\ pc = "sp"
    /\ mechanism \in MECHANISMS
    /\ entry_preferences' = preferences
    /\ agent_idx' = 1
    /\ swap_i' = 0
    /\ original_preferences' = preferences[agents[1]]
    /\ calls' = << >>
    /\ pc' = "sp_loop"
    /\ UNCHANGED <<inputVars, assignment, mechVars, given, properties, results,
                   pareto_perms, explained_name, explanation>>

\* verify_properties.py 174-195: one misreport of the current agent; an
\* improvement returns False at once, the ranking left as misreported
sp_misreport ==
    /\ pc = "sp_loop"
    /\ agent_idx <= Len(agents)
    /\ swap_i < Len(objects) - 1
    /\ preferences' = [preferences EXCEPT
                          ![agents[agent_idx]] = misreport(original_preferences, swap_i)]
    /\ \E out \in mechanism_call(mechanism, agents, objects, preferences') :
          IF improves(original_preferences, assignment, out.value, agents[agent_idx], objects)
          THEN /\ properties' = Put(properties, "Strategy-Proofness", FALSE)
               /\ pc' = "sp_returned"
               /\ UNCHANGED swap_i
          ELSE /\ swap_i' = swap_i + 1
               /\ UNCHANGED <<properties, pc>>
    /\ calls' = Append(calls, [agent |-> agents[agent_idx], i |-> swap_i,
                                preferences |-> preferences'])
    /\ UNCHANGED <<agents, objects, mechanism, assignment, mechVars, given, results,
                   pareto_perms, entry_preferences, agent_idx, original_preferences,
                   explained_name, explanation>>

\* verify_properties.py 197-198, 172-173: the inner loop is over, the ranking
\* is restored and the next agent, if any, is taken
sp_restore ==
    /\ pc = "sp_loop"
    /\ agent_idx <= Len(agents)
    /\ swap_i = Len(objects) - 1
    /\ preferences' = [preferences EXCEPT ![agents[agent_idx]] = original_preferences]
    /\ agent_idx' = agent_idx + 1
    /\ swap_i' = 0
    /\ original_preferences' =
          IF agent_idx < Len(agents) THEN preferences[agents[agent_idx + 1]]
          ELSE original_preferences
    /\ UNCHANGED <<agents, objects, mechanism, pc, assignment, mechVars, given, calls, properties,
                   results, pareto_perms, entry_preferences, explained_name, explanation>>

\* verify_properties.py 200
sp_return_true ==
    /\ pc = "sp_loop"
    /\ agent_idx > Len(agents)
    /\ properties' = Put(properties, "Strategy-Proofness", TRUE)
    /\ pc' = "sp_returned"
    /\ UNCHANGED <<inputVars, assignment, mechVars, given, calls, results, pareto_perms, spVars,
                   explained_name, explanation>>

\* verify_properties.py 239-244
evaluate_return ==
    /\ pc = "sp_returned"
    /\ results' = Append(results, properties)
    /\ pc' = "evaluated"
    /\ UNCHANGED <<inputVars, assignment, mechVars, given, calls, properties, pareto_perms,
                   spVars, explained_name, explanation>>

\* The caller runs the four checks (verify_properties.py 233-236) again on the
\* assignment and the preferences mapping it holds.
verify_again ==
    /\ pc = "evaluated"
    /\ Len(results) = 1
    /\ properties' = NoDict
    /\ pc' = "ex_post"
    /\ UNCHANGED <<inputVars, assignment, mechVars, given, calls, results, pareto_perms, spVars,
                   explained_name, explanation>>

\* app.py 146-147, 75-107: explain_property is called with a property name
\* and the verdict
explain_property_call ==
    /\ pc = "evaluated"
    /\ \E name \in PropertyNames \cup {UnknownProperty} :
       \E result \in BOOLEAN :
          /\ name \in PropertyNames => result = results[Len(results)][name]
          /\ explained_name' = name
          /\ explanation' = explain_property(name, result, assignment, preferences,
                                             agents, objects)
    /\ pc' = "explained"
    /\ UNCHANGED <<inputVars, assignment, mechVars, given, calls, properties, results,
                   pareto_perms, spVars>>

\* app.py 131-136: the app computes the assignment, any name that is not one
\* of the first two going to popular_assignment
app_assign ==
    /\ pc = "start"
    /\ \E out \in mechanism_call(IF mechanism \in {"Random Priority", "Probabilistic Serial"}
                                 THEN mechanism ELSE "Popular",
                                 agents, objects, preferences) :
          IF out.raised # ""
          THEN pc' = "raised" /\ UNCHANGED assignment
          ELSE pc' = "assigned" /\ assignment' = out.value
    /\ UNCHANGED <<agents, objects, preferences, mechanism, mechVars, verifyVars>>

\* app.py 141, 32-58
interpret_call ==
    /\ pc = "assigned"
    /\ explanation' = dynamic_paragraph_interpretation(assignment, agents, objects, mechanism)
    /\ pc' = "interpreted"
    /\ UNCHANGED <<inputVars, assignment, mechVars, given, calls, properties, results,
                   pareto_perms, spVars, explained_name>>

\* verify_properties.py 168-170: check_strategy_proofness called with a name
\* that is not in MECHANISMS
sp_unknown ==
    /\ pc = "assigned"
    /\ mechanism \notin MECHANISMS
    /\ pc' = "raised"
    /\ UNCHANGED <<inputVars, assignment, mechVars, verifyVars>>

NextVerify ==
    \/ evaluate_begin
    \/ ex_post_check
    \/ ordinal_check
    \/ no_envy_check
    \/ sp_begin
    \/ sp_misreport
    \/ sp_restore
    \/ sp_return_true
    \/ evaluate_return
    \/ verify_again
    \/ explain_property_call
    \/ app_assign
    \/ interpret_call
    \/ sp_unknown

SpecVerify == InitVerify /\ [][NextVerify]_vars

----------------------------------------------------------------------------
(* Claims about one call of a mechanism (Spec).                             *)

\* Every entry a number in [0,1], every agent's row and every object's column
\* summing to 1.
DoublyStochastic(asg, ag, ob) ==
    /\ DOMAIN asg = Range(ag)
    /\ \A a \in Range(ag) :
          /\ DOMAIN asg[a] = Range(ob)
          /\ \A o \in Range(ob) : asg[a][o][2] > 0 /\ RLe(Zero, asg[a][o]) /\ RLe(asg[a][o], One)
          /\ RSum(asg[a], Range(ob)) = One
    /\ \A o \in Range(ob) : RSum([a \in Range(ag) |-> asg[a][o]], Range(ag)) = One

\* C2: for every valid input, the matrix each mechanism returns has every row
\* and every column summing to 1 and every entry in [0,1].
C2_DoublyStochastic ==
    (pc = "returned" /\ ValidInput(agents, objects, preferences))
        => DoublyStochastic(assignment, agents, objects)

\* A mechanism has returned a matrix with a fractional entry for a valid input
\* with three agents.
C2_Witness ==
    /\ pc = "returned"
    /\ ValidInput(agents, objects, preferences)
    /\ Len(agents) = 3
    /\ \E a \in Range(agents), o \in Range(objects) :
          RLt(Zero, assignment[a][o]) /\ RLt(assignment[a][o], One)

\* C4: a mechanism returns an assignment only when every ranking is a
\* permutation of the objects (a malformed ranking makes it fail instead).
C4_MalformedRejected ==
    pc = "returned" => ValidRankings(agents, objects, preferences)

\* C8: when the solver's status is not "Optimal", popular_assignment does not
\* return a matrix.
C8_SolverFailureSurfaced ==
    status \notin {"", "Optimal"} => pc # "returned"

\* The total supply left in `remaining`.
total_remaining(rem) == RSum(rem, DOMAIN rem)

\* C10, every executed iteration on a valid input: delta is positive, the clock
\* advances, the total remaining supply decreases; and the iteration brings
\* the clock to 1 or uses an object up, so that there are at most
\* Len(objects) + 1 iterations.
C10_Progress ==
    (ps_iterate /\ ValidInput(agents, objects, preferences))
        => /\ RLt(Zero, delta')
           /\ RLt(time, time')
           /\ RLt(total_remaining(remaining'), total_remaining(remaining))
           /\ \/ time' = One
              \/ /\ DOMAIN remaining' \subseteq DOMAIN remaining
                 /\ DOMAIN remaining' # DOMAIN remaining

\* C10, the exit: the loop is left only with the clock at 1 or no agent having
\* a target with supply above epsilon, and it is left then.
C10_Exit ==
    (pc = "ps_loop" /\ ValidInput(agents, objects, preferences))
        => LET done == \/ RLe(One, time)
                       \/ \A a \in Range(agents) : \A k \in DOMAIN preferences[a] :
                              ~Edible(remaining, preferences[a][k])
           IN  /\ ps_return => done
               /\ ps_iterate => ~done

\* C10: for every valid input the probabilistic_serial loop terminates: every
\* executed iteration has delta > 0, advances the clock and decreases the
\* total remaining supply (and there are at most Len(objects) + 1 of them),
\* and the loop exits once the clock reaches 1 or no agent has a target with
\* supply above epsilon.
C10_Terminates == [][C10_Progress /\ C10_Exit]_vars

\* probabilistic_serial has returned for a valid input with three agents after
\* iterations that stopped short of the clock reaching 1 in one step.
C10_Witness ==
    /\ pc = "returned"
    /\ mechanism = "Probabilistic Serial"
    /\ ValidInput(agents, objects, preferences)
    /\ Len(agents) = 3
    /\ time = One
    /\ RLt(Zero, delta) /\ RLt(delta, One)

----------------------------------------------------------------------------
(* Claims about the verification and the explanation layer (SpecVerify).    *)

\* C1: whenever check_strategy_proofness returns, with either verdict, the
\* preferences mapping is what it was when the function was entered.
C1_PreferencesRestored ==
    pc = "sp_returned" => preferences = entry_preferences

\* C3: the four checks run a second time on the same assignment and the same
\* preferences mapping return the verdicts of the first run.
C3_Idempotent ==
    Len(results) = 2 => results[2] = results[1]

\* C5: no operation given an unknown mechanism name or an unknown property
\* name gets past it: explain_property returns a text only for a property
\* name, and the paragraph is displayed and the checks are run only for a
\* mechanism name.
C5_UnknownNameFails ==
    /\ pc = "explained" => explained_name \in PropertyNames
    /\ pc = "interpreted" => mechanism \in MECHANISMS
    /\ pc \in {"ex_post", "ordinal", "no_envy", "sp", "sp_loop", "sp_returned", "evaluated"}
          => mechanism \in MECHANISMS

\* Scenario 1: agents A, B, objects X, Y, A ranks [X, Y] and B ranks [Y, X].
Scenario1 ==
    /\ agents = <<"A", "B">>
    /\ objects = <<"X", "Y">>
    /\ given = [a \in {"A", "B"} |-> IF a = "A" THEN <<"X", "Y">> ELSE <<"Y", "X">>]

\* A gets X and B gets Y.
Deterministic1 ==
    [a \in {"A", "B"} |-> [o \in {"X", "Y"} |->
        IF (a = "A" /\ o = "X") \/ (a = "B" /\ o = "Y") THEN One ELSE Zero]]

\* C6: in scenario 1 each of the three mechanisms returns A -> X = 1,
\* B -> Y = 1, and evaluate_mechanism_properties returns True for all four
\* properties.
C6_Scenario1 ==
    (Scenario1 /\ mechanism \in MECHANISMS)
        => /\ pc # "raised"
           /\ pc # "start" => assignment = Deterministic1
           /\ Len(results) >= 1 => results[1] = [q \in PropertyNames |-> TRUE]

\* evaluate_mechanism_properties has returned for scenario 1 under Popular.
C6_Witness ==
    /\ Scenario1
    /\ mechanism = "Popular"
    /\ pc = "evaluated"
    /\ Len(results) = 1

\* Scenario 2: agents A, B, objects X, Y, both ranking [X, Y].
Scenario2 ==
    /\ agents = <<"A", "B">>
    /\ objects = <<"X", "Y">>
    /\ given = [a \in {"A", "B"} |-> <<"X", "Y">>]

\* Half of each object to each agent.
Halves == [a \in {"A", "B"} |-> [o \in {"X", "Y"} |-> <<1, 2>>]]

\* C7: in scenario 2 probabilistic_serial returns exactly one half of X and
\* one half of Y to each agent, and check_no_envy and
\* check_ordinal_efficiency return True on that assignment.
C7_Scenario2 ==
    (Scenario2 /\ mechanism = "Probabilistic Serial")
        => /\ pc # "raised"
           /\ pc # "start" => assignment = Halves
           /\ \A q \in {"No Envy", "Ordinal Efficiency"} :
                 /\ (Len(results) = 0 /\ q \in DOMAIN properties) => properties[q]
                 /\ Len(results) >= 1 => results[1][q]

\* Both checks have run on probabilistic_serial's assignment for scenario 2.
C7_Witness ==
    /\ Scenario2
    /\ mechanism = "Probabilistic Serial"
    /\ pc = "sp"
    /\ Len(results) = 0
    /\ {"No Envy", "Ordinal Efficiency"} \subseteq DOMAIN properties

\* The deterministic assignment perm (agent ag[i] gets perm[i]) is Pareto
\* optimal: no other one gives some agent a better-ranked object and no agent
\* a worse-ranked one.
pareto_optimal(perm, ag, prefs) ==
    ~\E other \in permutations(perm) :
        /\ \A i \in 1..Len(ag) : index(prefs[ag[i]], other[i]) <= index(prefs[ag[i]], perm[i])
        /\ \E i \in 1..Len(ag) : index(prefs[ag[i]], other[i]) < index(prefs[ag[i]], perm[i])

\* C9: the permutations the filter of check_ex_post_efficiency keeps are
\* exactly the Pareto-optimal deterministic assignments.
C9_ParetoFilterExact ==
    pc = "ordinal"
        => pareto_perms = {perm \in permutations(objects) :
                              pareto_optimal(perm, agents, preferences)}

\* The profile differs from `entry` only in the ranking of `agent`, and there
\* by exactly the transposition of positions i and i + 1 (0-based).
OneTransposition(profile, entry, agent, i) ==
    /\ DOMAIN profile = DOMAIN entry
    /\ \A a \in (DOMAIN entry) \ {agent} : profile[a] = entry[a]
    /\ DOMAIN profile[agent] = DOMAIN entry[agent]
    /\ profile[agent][i + 1] = entry[agent][i + 2]
    /\ profile[agent][i + 2] = entry[agent][i + 1]
    /\ \A j \in (DOMAIN entry[agent]) \ {i + 1, i + 2} : profile[agent][j] = entry[agent][j]

\* The invocations so far are those of the first pairs (agent, i), in the
\* order of the agents and of the positions 0 .. n-2, one each, every one
\* with the entry profile changed by its one transposition.
CallsInOrder ==
    \A k \in DOMAIN calls :
        /\ calls[k].agent = agents[((k - 1) \div (Len(objects) - 1)) + 1]
        /\ calls[k].i = (k - 1) % (Len(objects) - 1)
        /\ OneTransposition(calls[k].preferences, entry_preferences,
                            calls[k].agent, calls[k].i)

\* C11 as stated: a call of check_strategy_proofness that has returned has
\* invoked the mechanism once for each pair (agent, i), Len(agents) * (n - 1)
\* times in all, each time with the entry profile changed by that one
\* adjacent transposition.
C11_OncePerPair ==
    pc = "sp_returned"
        => /\ Len(calls) = Len(agents) * (Len(objects) - 1)
           /\ CallsInOrder

\* C11 amended: the mechanism is invoked once per pair (agent, i) in order,
\* each time with the entry profile changed by that one transposition, until
\* the first misreport that pays; Len(agents) * (n - 1) times exactly when
\* the verdict is True, and fewer or as many when it is False.
C11_OncePerPairUntilFalse ==
    pc \in {"sp_loop", "sp_returned"}
        => /\ CallsInOrder
           /\ Len(calls) <= Len(agents) * (Len(objects) - 1)
           /\ pc = "sp_returned"
                 => IF properties["Strategy-Proofness"]
                    THEN Len(calls) = Len(agents) * (Len(objects) - 1)
                    ELSE Len(calls) >= 1

\* check_strategy_proofness has returned False for three agents before it
\* had tried every pair.
C11_Witness ==
    /\ pc = "sp_returned"
    /\ Len(agents) = 3
    /\ ~properties["Strategy-Proofness"]
    /\ Len(calls) >= 2
    /\ Len(calls) < Len(agents) * (Len(objects) - 1)

\* What all the agents hold of the object o.
allocated(asg, ag, o) == RSum([a \in Range(ag) |-> asg[a][o]], Range(ag))

\* The supply left of o: 0 once it has been removed from `remaining`.
supply_left(rem, o) == IF o \in DOMAIN rem THEN rem[o] ELSE Zero

\* C12, the state part: in and after the loop of probabilistic_serial on a
\* valid input, what is allocated of an object plus what remains of it is 1,
\* and every agent's row total is the clock.
C12_Conservation ==
    (/\ mechanism = "Probabilistic Serial"
     /\ pc \in {"ps_loop", "returned"}
     /\ ValidInput(agents, objects, preferences))
        => /\ \A o \in Range(objects) :
                 RAdd(allocated(assignment, agents, o), supply_left(remaining, o)) = One
           /\ \A a \in Range(agents) : RSum(assignment[a], Range(objects)) = time

\* C12, the step part: an iteration on a valid input credits every agent
\* that has a target exactly delta on it and nothing else, and removes an
\* object only when its supply is fully consumed.
C12_Step ==
    (ps_iterate /\ ValidInput(agents, objects, preferences))
        => LET er == eat_rates(agents, preferences, remaining)
           IN  /\ \A a \in Range(agents) : \A o \in Range(objects) :
                      assignment'[a][o] =
                          IF a \in DOMAIN er /\ er[a] = o
                          THEN RAdd(assignment[a][o], delta')
                          ELSE assignment[a][o]
               /\ DOMAIN er = Range(agents)
               /\ \A o \in (DOMAIN remaining) \ (DOMAIN remaining') :
                      allocated(assignment', agents, o) = One

\* C12: on valid inputs, after every iteration of probabilistic_serial, for
\* every object the amount allocated plus the remaining supply (0 once it is
\* removed) is 1 and every agent's row total is the clock; every agent with a
\* target is credited exactly delta on it, and an object is removed only when
\* fully consumed.
C12_LoopInvariant == []C12_Conservation /\ [][C12_Step]_vars

\* The loop is in its middle for three agents: the clock strictly between 0
\* and 1, one object removed and another partly eaten.
C12_Witness ==
    /\ mechanism = "Probabilistic Serial"
    /\ pc = "ps_loop"
    /\ ValidInput(agents, objects, preferences)
    /\ Len(agents) = 3
    /\ RLt(Zero, time) /\ RLt(time, One)
    /\ DOMAIN remaining # Range(objects)
    /\ \E o \in DOMAIN remaining : RLt(remaining[o], One)

\* probabilistic_serial has returned on a valid strict profile.
ps_returned_valid ==
    /\ mechanism = "Probabilistic Serial"
    /\ pc = "returned"
    /\ ValidInput(agents, objects, preferences)

\* C13: for every valid strict preference profile, the assignment returned by
\* probabilistic_serial is accepted by check_ordinal_efficiency: the dominance
\* graph built from it (better -> worse whenever some agent ranks better above
\* worse and holds more than epsilon of worse) has no cycle.
C13_SerialOrdinallyEfficient ==
    ps_returned_valid
        => check_ordinal_efficiency(assignment, preferences, agents, objects)

\* Three agents, a returned assignment with a fractional share, and a
\* dominance graph that has edges for the acyclicity to be about: two agents
\* disagree on the first object.
C13_Witness ==
    /\ ps_returned_valid
    /\ Len(agents) = 3
    /\ \E a, b \in Range(agents) : preferences[a][1] # preferences[b][1]
    /\ \E a \in Range(agents) : \E o \in Range(objects) :
           RLt(Zero, assignment[a][o]) /\ RLt(assignment[a][o], One)
    /\ Cardinality(dominance_edges(assignment, preferences, agents)) >= 3
    /\ check_ordinal_efficiency(assignment, preferences, agents, objects)

====
